---- MODULE Spec2Model ----
(***************************************************************************)
(* Model of the row-reconciliation statistics engine                       *)
(* (app/enrichment/enrichment_calculator.py), of the column classifier     *)
(* (app/inconsistency.py), of the population count                         *)
(* (app/initial/population.py), of the rates of initial.py and             *)
(* enrichment.py, and of the worker pool of main.py.                       *)
(*                                                                         *)
(* A run is one call: a direct call of                                     *)
(* _calculate_column_comparison_stats(df, column_mapping, modified_records)*)
(* a call of calculate_statistics(df, column_matching_result, ...), a call *)
(* of analyze_inconsistency(df, threshold=threshold), of                   *)
(* _is_valid_phone_number, _detect_date_format or analyze_population; or   *)
(* it is main's pool step, whose tasks interleave.                         *)
(* Init draws the arguments, the action applies the method to them.        *)
(*                                                                         *)
(* A cell is a record [null, text]: null is pandas' missing value          *)
(* (None/NaN), text is the characters of str(value).  A table df is a      *)
(* RangeIndex 0..rows-1 and a function from column names to cell           *)
(* sequences.  Optional values (Optional[...]) are the empty sequence for  *)
(* None and a one-element sequence otherwise; an Optional[str] column name *)
(* is the string None.  A float percentage or threshold is the exact       *)
(* fraction num/den.                                                       *)
(*                                                                         *)
(* The regular expressions, the phonenumbers library and the date parsers  *)
(* of pandas are tabulated over the strings of a fixed vocabulary; the     *)
(* format signatures and the numeric test are computed from the            *)
(* characters.  Two facts of the build are state: whether the phonenumbers *)
(* import succeeded, and whether pandas parses a column of date strings    *)
(* with one format guessed from its first value (pandas 2) or value by     *)
(* value (pandas 1).                                                       *)
(***************************************************************************)
EXTENDS Integers, Sequences, FiniteSets, TLC

VARIABLES
    op,                      \* which method the run calls
    pc,                      \* "ready" before the call, "returned" after it
    df,                      \* the DataFrame argument
    column_mapping,          \* argument of the direct call
    column_matching_result,  \* argument of calculate_statistics
    modified_records,        \* the caller's set passed to the direct call
    outcome,                 \* exception raised by the call ("None" if none)
    stats,                   \* value returned by the direct call
    report,                  \* value returned by calculate_statistics
    threshold,               \* argument of analyze_inconsistency
    phonenumbers,            \* FALSE when "import phonenumbers" failed
    pandas_guesses_format,   \* TRUE: to_datetime guesses one format per column
    result,                  \* value returned by analyze_inconsistency
    parse_raises,            \* the exception phonenumbers.parse raises on a
                             \* value it rejects
    number,                  \* argument of _is_valid_phone_number
    tasks_to_process,        \* main: the tasks queued for the pool
    futures,                 \* main: the state of each submitted task
    results                  \* main: the result records collected

vars == <<op, pc, df, column_mapping, column_matching_result,
          modified_records, outcome, stats, report,
          threshold, phonenumbers, pandas_guesses_format, result,
          parse_raises, number, tasks_to_process, futures, results>>

\* ------------------------------------------------------------------ bounds

MaxRows == 2
MaxMappings == 2
\* the values of a classified column
MaxValues == 3

\* the tasks main queues for the pool
MaxTasks == 5

\* ------------------------------------------------------------------ values

None == "None"

NULL == [null |-> TRUE, text |-> <<>>]

Str(s) == [null |-> FALSE, text |-> s]

\* pd.DataFrame(data): a RangeIndex of rows rows and the named columns
DataFrame(rows, data) == [rows |-> rows, data |-> data]

Columns(df_) == DOMAIN df_.data

\* ------------------------------------------------- str.strip and has-value

RECURSIVE lstrip(_)
lstrip(s) == IF s # <<>> /\ Head(s) = " " THEN lstrip(Tail(s)) ELSE s

RECURSIVE rstrip(_)
rstrip(s) ==
    IF s # <<>> /\ s[Len(s)] = " " THEN rstrip(SubSeq(s, 1, Len(s) - 1)) ELSE s

strip(s) == rstrip(lstrip(s))

\* mutant: the value is compared with "" without trimming it
has_value_untrimmed(val) == ~val.null /\ val.text # <<>>

\* pd.notna(val) and str(val).strip() != ""
has_value(val) == ~val.null /\ strip(val.text) # <<>>

\* num/den
Fraction(n, d) == [num |-> n, den |-> d]

\* ------------------------------------------------------ string operations

\* c in s, for one character c
Contains(s, c) == \E i \in DOMAIN s : s[i] = c

\* sub in s, for a string sub
ContainsStr(s, sub) ==
    \E i \in 1..(Len(s) - Len(sub) + 1) : SubSeq(s, i, i + Len(sub) - 1) = sub

\* s.count(c)
Count(s, c) == Cardinality({ i \in DOMAIN s : s[i] = c })

\* s.startswith(prefix)
startswith(s, prefix) == Len(s) >= Len(prefix) /\ SubSeq(s, 1, Len(prefix)) = prefix

\* s.endswith(suffix)
endswith(s, suffix) ==
    Len(s) >= Len(suffix) /\ SubSeq(s, Len(s) - Len(suffix) + 1, Len(s)) = suffix

\* s[-6:]
LastSix(s) == SubSeq(s, IF Len(s) > 6 THEN Len(s) - 5 ELSE 1, Len(s))

\* s.replace(c, "")
Without(s, c) == SelectSeq(s, LAMBDA ch : ch # c)

\* position of the first character of s that is in C, Len(s) + 1 if none
IndexOf(s, C) ==
    IF \E i \in DOMAIN s : s[i] \in C
    THEN CHOOSE i \in DOMAIN s : s[i] \in C /\ \A j \in 1..(i - 1) : s[j] \notin C
    ELSE Len(s) + 1

\* s.rindex(c), for a character that occurs in s
rindex(s, c) == CHOOSE i \in DOMAIN s : s[i] = c /\ \A j \in (i + 1)..Len(s) : s[j] # c

Digits == {"0", "1", "2", "3", "4", "5", "6", "7", "8", "9"}

UpperLetters ==
    <<"A", "B", "C", "D", "E", "F", "G", "H", "I", "J", "K", "L", "M",
      "N", "O", "P", "Q", "R", "S", "T", "U", "V", "W", "X", "Y", "Z">>

LowerLetters ==
    <<"a", "b", "c", "d", "e", "f", "g", "h", "i", "j", "k", "l", "m",
      "n", "o", "p", "q", "r", "s", "t", "u", "v", "w", "x", "y", "z">>

UpperCase == { UpperLetters[k] : k \in DOMAIN UpperLetters }

\* s.lower()
lower(s) ==
    [ i \in DOMAIN s |->
        IF s[i] \in UpperCase
        THEN LowerLetters[CHOOSE k \in DOMAIN UpperLetters : UpperLetters[k] = s[i]]
        ELSE s[i] ]

\* ------------------------------------------------------- the vocabulary

\* "https://a.com"
URL_HTTPS == <<"h", "t", "t", "p", "s", ":", "/", "/", "a", ".", "c", "o", "m">>

\* "a@b.com"
EMAIL_A == <<"a", "@", "b", ".", "c", "o", "m">>

\* "c@d.org"
EMAIL_C == <<"c", "@", "d", ".", "o", "r", "g">>

\* "650-253-0000"
PHONE_DASHES == <<"6", "5", "0", "-", "2", "5", "3", "-", "0", "0", "0", "0">>

\* "(650) 253-0000"
PHONE_PARENS ==
    <<"(", "6", "5", "0", ")", " ", "2", "5", "3", "-", "0", "0", "0", "0">>

\* "5550100"
SEVEN_DIGITS == <<"5", "5", "5", "0", "1", "0", "0">>

\* "+0 253-0000": PHONE_RE matches it; no country has the calling code 0
PHONE_NO_COUNTRY == <<"+", "0", " ", "2", "5", "3", "-", "0", "0", "0", "0">>

\* "2023-01-01"
DATE_ISO == <<"2", "0", "2", "3", "-", "0", "1", "-", "0", "1">>

\* "01/15/2023"
DATE_US == <<"0", "1", "/", "1", "5", "/", "2", "0", "2", "3">>

\* "15/01/2023"
DATE_EU == <<"1", "5", "/", "0", "1", "/", "2", "0", "2", "3">>

\* "02/01/2023"
DATE_AMBIGUOUS == <<"0", "2", "/", "0", "1", "/", "2", "0", "2", "3">>

\* "true"
BOOL_TRUE == <<"t", "r", "u", "e">>

\* "1"
ONE == <<"1">>

\* "1,000"
THOUSAND == <<"1", ",", "0", "0", "0">>

\* "12.5"
DECIMAL == <<"1", "2", ".", "5">>

\* ------------------------------------------------- constants and matchers

\* the keys of BOOLEAN_VALUES
BOOLEAN_VALUES ==
    { <<"t", "r", "u", "e">>, <<"f", "a", "l", "s", "e">>, <<"y", "e", "s">>,
      <<"n", "o">>, <<"y">>, <<"n">>, <<"1">>, <<"0">>, <<"o", "n">>,
      <<"o", "f", "f">>, <<"t">>, <<"f">> }

\* URL_RE.match(x) is not None, with the flags URL_RE is compiled with
\* (IGNORECASE | VERBOSE), over the vocabulary
URL_RE_match(x) == x \in {URL_HTTPS}

\* Series.str.match(URL_RE.pattern) on one value: the text of the pattern is
\* compiled again without flags, so the newline, the blanks and the
\* "# ..." remarks of the verbose pattern are literal characters, the first
\* of them in front of "^"; no string matches
str_match_URL_RE_pattern(x) == FALSE

\* Series.str.match(EMAIL_RE.pattern) on one value, over the vocabulary
str_match_EMAIL_RE_pattern(x) == x \in {EMAIL_A, EMAIL_C}

\* PHONE_RE.match(x) is not None, over the vocabulary
PHONE_RE_match(x) ==
    x \in {PHONE_DASHES, PHONE_PARENS, SEVEN_DIGITS, PHONE_NO_COUNTRY}

\* phonenumbers.parse(x, "US") raises for x: a value without a digit, or with
\* a country calling code that does not exist
parse_rejects(x) ==
    \/ x = PHONE_NO_COUNTRY
    \/ \A k \in DOMAIN x : x[k] \notin Digits

\* phonenumbers.is_valid_number(phonenumbers.parse(x, "US")), over the
\* vocabulary: the seven-digit number has no area code
is_valid_number(x) == x \in {PHONE_DASHES, PHONE_PARENS}

DATE_FORMATS ==
    << "%Y-%m-%d", "%Y-%m-%d %H:%M:%S", "%Y-%m-%dT%H:%M:%S", "%Y-%m-%d %H:%M",
       "%Y-%m-%dT%H:%M",
       "%m/%d/%Y", "%m/%d/%Y %H:%M:%S", "%m/%d/%Y %H:%M",
       "%m-%d-%Y", "%m-%d-%Y %H:%M:%S", "%m-%d-%Y %H:%M",
       "%d/%m/%Y", "%d/%m/%Y %H:%M:%S", "%d/%m/%Y %H:%M",
       "%d-%m-%Y", "%d-%m-%Y %H:%M:%S", "%d-%m-%Y %H:%M",
       "%Y/%m/%d", "%Y/%m/%d %H:%M:%S", "%Y/%m/%d %H:%M",
       "%Y%m%d", "%m%d%Y", "%d%m%Y",
       "%Y %b %d", "%Y %B %d", "%d %b %Y", "%d %B %Y" >>

\* pd.to_datetime(x, format=fmt, errors="coerce") is not NaT, over the
\* vocabulary
strptime(x, fmt) ==
    \/ fmt = "%Y-%m-%d" /\ x = DATE_ISO
    \/ fmt = "%m/%d/%Y" /\ x \in {DATE_US, DATE_AMBIGUOUS}
    \/ fmt = "%d/%m/%Y" /\ x \in {DATE_EU, DATE_AMBIGUOUS}

\* pd.to_datetime(x, errors="coerce") is not NaT for the single value x,
\* over the vocabulary
dateutil_parse(x) == x \in {DATE_ISO, DATE_US, DATE_EU, DATE_AMBIGUOUS}

\* the format pandas 2 guesses from the first value of a column
guess_datetime_format(x) ==
    IF x = DATE_ISO THEN "%Y-%m-%d"
    ELSE IF x \in {DATE_US, DATE_AMBIGUOUS} THEN "%m/%d/%Y"
    ELSE IF x = DATE_EU THEN "%d/%m/%Y"
    ELSE None

\* the positions pd.to_datetime(s, errors="coerce") parses
to_datetime_notna(s) ==
    IF pandas_guesses_format /\ s # <<>> /\ guess_datetime_format(s[1]) # None
    THEN { i \in DOMAIN s : strptime(s[i], guess_datetime_format(s[1])) }
    ELSE { i \in DOMAIN s : dateutil_parse(s[i]) }

\* the value of an unsigned decimal numeral with the given integer and
\* fraction digits: "nan", "whole" (x % 1 == 0) or "fraction" (x % 1 != 0)
NumeralKind(x, int_part, frac_part) ==
    IF \/ x = <<>>
       \/ \E i \in DOMAIN int_part : int_part[i] \notin Digits
       \/ \E i \in DOMAIN frac_part : frac_part[i] \notin Digits
       \/ (int_part = <<>> /\ frac_part = <<>>)
    THEN "nan"
    ELSE IF \A i \in DOMAIN frac_part : frac_part[i] = "0" THEN "whole"
    ELSE "fraction"

SplitAt(x, dot) == NumeralKind(x, SubSeq(x, 1, dot - 1), SubSeq(x, dot + 1, Len(x)))

\* pd.to_numeric(x, errors="coerce") of one value, for unsigned decimal
\* numerals
to_numeric(x) == SplitAt(x, IndexOf(x, {"."}))

\* mutant: the ratio is compared with 1 - threshold
AtLeast_complement(count, total, threshold_) ==
    count * threshold_.den >= (threshold_.den - threshold_.num) * total

\* (count / total) >= threshold
AtLeast(count, total, threshold_) ==
    count * threshold_.den >= threshold_.num * total

\* ------------------------------------------------------ format signatures
\* A signature "|".join(components) is the sequence of its components.

\* urlparse of the value with a scheme, then the three components
get_url_format(x) ==
    LET http == <<"h", "t", "t", "p", ":", "/", "/">>
        https == <<"h", "t", "t", "p", "s", ":", "/", "/">>
        url == IF startswith(x, http) \/ startswith(x, https) THEN x ELSE http \o x
        scheme == IF startswith(url, https) THEN "scheme:https" ELSE "scheme:http"
        after == SubSeq(url, IndexOf(url, {":"}) + 3, Len(url))
        netloc == SubSeq(after, 1, IndexOf(after, {"/", "?", "#"}) - 1)
        rest == SubSeq(after, Len(netloc) + 1, Len(after))
        fragment == SubSeq(rest, IndexOf(rest, {"#"}) + 1, Len(rest))
        before == SubSeq(rest, 1, IndexOf(rest, {"#"}) - 1)
        query == SubSeq(before, IndexOf(before, {"?"}) + 1, Len(before))
        path == SubSeq(before, 1, IndexOf(before, {"?"}) - 1)
    IN  << scheme,
           IF startswith(netloc, <<"w", "w", "w", ".">>) THEN "www" ELSE "no_www",
           IF (path # <<>> /\ path # <<"/">>) \/ query # <<>> \/ fragment # <<>>
           THEN "has_path" ELSE "no_path" >>

\* _get_phone_format; the signature is the record of what its components
\* say: a counted component (dash2, dot1, space1) is its count
get_phone_format(s) ==
    LET i == IndexOf(Tail(s), { s[k] : k \in DOMAIN s } \ Digits) + 1
        num_dashes == Count(s, "-")
        num_dots == Count(s, ".")
        num_spaces == Count(s, " ")
    IN  [ plus |-> startswith(s, <<"+">>),
          space_after_country |->
              /\ startswith(s, <<"+">>)
              /\ Len(s) > 1 /\ lstrip(Tail(s)) # Tail(s)
              /\ i <= Len(s) /\ s[i] = " ",
          parens |-> Contains(s, "(") /\ Contains(s, ")"),
          dash |-> num_dashes,
          dot |-> num_dots,
          space |-> num_spaces,
          nosep |-> num_dashes = 0 /\ num_dots = 0 /\ num_spaces = 0,
          ext |-> \/ Contains(lower(s), "#")
                  \/ Contains(lower(s), "x")
                  \/ ContainsStr(lower(s), <<"e", "x", "t">>) ]

get_boolean_format(s) ==
    LET s_lower == lower(s)
    IN  IF s_lower \in {<<"t", "r", "u", "e">>, <<"f", "a", "l", "s", "e">>}
        THEN "true_false"
        ELSE IF s_lower \in {<<"y", "e", "s">>, <<"n", "o">>} THEN "yes_no"
        ELSE IF s_lower \in {<<"y">>, <<"n">>} THEN "y_n"
        ELSE IF s_lower \in {<<"1">>, <<"0">>} THEN "1_0"
        ELSE IF s_lower \in {<<"o", "n">>, <<"o", "f", "f">>} THEN "on_off"
        ELSE IF s_lower \in {<<"t">>, <<"f">>} THEN "t_f"
        ELSE "unknown"

get_integer_format(s) ==
    IF Contains(s, ",") THEN "comma_separated"
    ELSE IF Contains(s, "_") THEN "underscore_separated"
    ELSE "plain"

get_float_format(s) ==
    LET thousands ==
            IF Contains(s, ",")
            THEN IF Contains(s, ".") /\ rindex(s, ".") > rindex(s, ",")
                 THEN <<"comma_thousands">> ELSE <<"comma_decimal">>
            ELSE IF Contains(s, "_") THEN <<"underscore_thousands">>
            ELSE <<>>
        decimal ==
            IF Contains(s, ".") /\ thousands # <<"comma_decimal">>
            THEN <<"period_decimal">> ELSE <<>>
        scientific == IF Contains(lower(s), "e") THEN <<"scientific">> ELSE <<>>
        components == thousands \o decimal \o scientific
    IN  IF components # <<>> THEN components ELSE <<"plain">>

\* -------------------------------------------------- _detect_date_format

\* the rows sampled by head(10) in _detect_date_format
DescriptorSample == 10

\* the rows sampled by head(100) in _detect_series
SampleSize == 100

\* the first n positions of a set of positions
head(positions, n) ==
    { i \in positions : Cardinality({ j \in positions : j <= i }) <= n }

ZeroDivisionError == "ZeroDivisionError"

\* the number of values of s that fmt parses
ValidCount(s, fmt) == Cardinality({ i \in DOMAIN s : strptime(s[i], fmt) })

\* the descriptor built from the sample of the values the generic parser
\* read
DateDescriptor(s, sample) ==
    LET slash == \E i \in sample : Contains(s[i], "/")
        dash == \E i \in sample : Contains(s[i], "-")
        has_time == \E i \in sample : Contains(s[i], ":")
        has_tz == \E i \in sample :
                     \/ endswith(s[i], <<"Z">>)
                     \/ Contains(LastSix(s[i]), "+")
                     \/ Contains(LastSix(s[i]), "-")
        separators == (IF dash THEN "-" ELSE "") \o (IF slash THEN "/" ELSE "")
        sep_part == IF dash \/ slash THEN <<"sep:" \o separators>> ELSE <<>>
        format_parts == sep_part
                        \o (IF has_time THEN <<"time">> ELSE <<>>)
                        \o (IF has_tz THEN <<"tz">> ELSE <<>>)
    IN  IF format_parts = <<>> THEN "standard"
        ELSE IF Len(format_parts) = 1 THEN format_parts[1]
        ELSE IF Len(format_parts) = 2 THEN format_parts[1] \o "|" \o format_parts[2]
        ELSE format_parts[1] \o "|" \o format_parts[2] \o "|" \o format_parts[3]

\* best_count and best_format after the loop over DATE_FORMATS;
\* valid_count[k] is the number of values the k-th format parses
BestCount(valid_count) ==
    CHOOSE c \in { valid_count[k] : k \in DOMAIN valid_count } \cup {0} :
        \A k \in DOMAIN valid_count : valid_count[k] <= c

BestFormat(valid_count, best_count) ==
    IF best_count = 0 THEN None
    ELSE DATE_FORMATS[CHOOSE k \in DOMAIN valid_count :
             /\ valid_count[k] = best_count
             /\ \A j \in 1..(k - 1) : valid_count[j] < best_count]

\* the part of _detect_date_format after the loop
DateFormatDecision(s, best_count, best_format, valid_mask) ==
    IF Len(s) = 0 THEN ZeroDivisionError
    ELSE IF best_count * 2 >= Len(s) THEN best_format
    ELSE IF Cardinality(valid_mask) * 2 < Len(s) THEN None
    ELSE DateDescriptor(s, head(valid_mask, DescriptorSample))

DateFormatOfCounts(s, valid_count, best_count) ==
    DateFormatDecision(s, best_count, BestFormat(valid_count, best_count),
                       to_datetime_notna(s))

\* returns a format of DATE_FORMATS, a descriptor, None, or the exception
\* of best_count / len(s) on a series without values
detect_date_format(s) ==
    LET valid_count == [ k \in DOMAIN DATE_FORMATS |-> ValidCount(s, DATE_FORMATS[k]) ]
    IN  DateFormatOfCounts(s, valid_count, BestCount(valid_count))

\* what the parsers see of a null of the series: a value no format parses
NaT == <<"NaT">>

\* the values of a series that was not cleaned
SeriesValues(series) ==
    [ i \in DOMAIN series |-> IF series[i].null THEN NaT ELSE series[i].text ]

\* -------------------------------------------------------- _detect_series

\* .astype(str).str.strip()
StrStrip(kept) == [ i \in DOMAIN kept |-> strip(kept[i].text) ]

\* s.dropna().astype(str).str.strip()
Clean(column) == StrStrip(SelectSeq(column, LAMBDA cell : ~cell.null))

\* _is_valid_phone_number: the value it returns when it returns
is_valid_phone_number(x) ==
    IF ~phonenumbers THEN FALSE
    ELSE IF parse_rejects(x) THEN FALSE
    ELSE is_valid_number(x)

\* _is_valid_phone_number: the exception that leaves it, None if it returns;
\* "except NumberParseException" catches that class and no other
is_valid_phone_number_raises(x) ==
    IF ~phonenumbers THEN None
    ELSE IF parse_rejects(x) /\ parse_raises # "NumberParseException"
    THEN parse_raises
    ELSE None

\* _detect_series after s = s.dropna().astype(str).str.strip()
detect_clean_series(s, threshold_) ==
    LET total == Len(s)
        url_matches == { i \in DOMAIN s : str_match_URL_RE_pattern(s[i]) }
        email_matches == { i \in DOMAIN s : str_match_EMAIL_RE_pattern(s[i]) }
        phone_matches == { i \in DOMAIN s : PHONE_RE_match(s[i]) }
        valid_phones == { i \in phone_matches : is_valid_phone_number(s[i]) }
        date_format == detect_date_format(s)
        parsed == to_datetime_notna(s)
        sample_formats ==
            { detect_date_format(<<s[i]>>) : i \in head(parsed, SampleSize) }
        boolean_matches == { i \in DOMAIN s : lower(s[i]) \in BOOLEAN_VALUES }
        cleaned(x) == Without(Without(x, ","), "_")
        is_integer == { i \in DOMAIN s : to_numeric(cleaned(s[i])) = "whole" }
        is_float == { i \in DOMAIN s : to_numeric(cleaned(s[i])) = "fraction" }
        typed(type, formats) == [type |-> type, format_count |-> <<Cardinality(formats)>>]
    IN  IF total = 0 THEN [type |-> None, format_count |-> <<>>]
        ELSE IF AtLeast(Cardinality(url_matches), total, threshold_)
        THEN typed("url", { get_url_format(s[i]) : i \in url_matches })
        ELSE IF AtLeast(Cardinality(email_matches), total, threshold_)
        THEN [type |-> "email", format_count |-> <<>>]
        ELSE IF /\ AtLeast(Cardinality(phone_matches), total, threshold_)
                /\ phonenumbers
                /\ AtLeast(Cardinality(valid_phones), Cardinality(phone_matches),
                           threshold_)
        THEN typed("phone", { get_phone_format(s[i]) : i \in valid_phones })
        ELSE IF /\ AtLeast(Cardinality(phone_matches), total, threshold_)
                /\ ~phonenumbers
        THEN typed("phone", { get_phone_format(s[i]) : i \in phone_matches })
        ELSE IF /\ date_format # None
                /\ AtLeast(Cardinality(parsed), total, threshold_)
        THEN typed("date", sample_formats \ {None})
        ELSE IF AtLeast(Cardinality(boolean_matches), total, threshold_)
        THEN typed("boolean", { get_boolean_format(s[i]) : i \in boolean_matches })
        ELSE IF AtLeast(Cardinality(is_integer), total, threshold_)
        THEN typed("integer", { get_integer_format(s[i]) : i \in is_integer })
        ELSE IF AtLeast(Cardinality(is_float), total, threshold_)
        THEN typed("float", { get_float_format(s[i]) : i \in is_float })
        ELSE [type |-> "string", format_count |-> <<>>]

\* returns (type, format_count); a format_count of None is <<>>
detect_series(column, threshold_) == detect_clean_series(Clean(column), threshold_)

\* the exception that leaves _detect_series, None if it returns: the phone
\* step calls _is_valid_phone_number outside any try; the date and numeric
\* steps parse with errors="coerce" and inside "except Exception"
detect_clean_series_raises(s, threshold_) ==
    LET total == Len(s)
        url_matches == { i \in DOMAIN s : str_match_URL_RE_pattern(s[i]) }
        email_matches == { i \in DOMAIN s : str_match_EMAIL_RE_pattern(s[i]) }
        phone_matches == { i \in DOMAIN s : PHONE_RE_match(s[i]) }
        raised == { is_valid_phone_number_raises(s[i]) : i \in phone_matches } \ {None}
    IN  IF total = 0 THEN None
        ELSE IF AtLeast(Cardinality(url_matches), total, threshold_) THEN None
        ELSE IF AtLeast(Cardinality(email_matches), total, threshold_) THEN None
        ELSE IF /\ AtLeast(Cardinality(phone_matches), total, threshold_)
                /\ phonenumbers
                /\ raised # {}
        THEN CHOOSE e \in raised : TRUE
        ELSE None

detect_series_raises(column, threshold_) ==
    detect_clean_series_raises(Clean(column), threshold_)

\* ---------------------------------------------------- analyze_inconsistency

ClassifiedColumn(type, format_count) == [type |-> type, format_count |-> format_count]

\* the threshold analyze_inconsistency takes when none is given: 0.8
DefaultThreshold == Fraction(4, 5)

\* mutant: a format_count of None is stored as 0
FormatCountOrOne_zero(format_count) == IF format_count # <<>> THEN format_count[1] ELSE 0

\* format_count if format_count is not None else 1
FormatCountOrOne(format_count) == IF format_count # <<>> THEN format_count[1] ELSE 1

\* the entry of the dict for a column _detect_series returned detected for
ClassifyDetected(detected) ==
    IF detected.type # None
    THEN ClassifiedColumn(detected.type, FormatCountOrOne(detected.format_count))
    ELSE ClassifiedColumn("string", 1)

\* mutant: when the table has a column named other, every column is
\* classified from its values
analyze_inconsistency_from_other(df_, threshold_) ==
    [ col \in Columns(df_) |->
        ClassifyDetected(detect_series(
            df_.data[IF "other" \in Columns(df_) THEN "other" ELSE col], threshold_)) ]

\* the dict of the classified columns of df
analyze_inconsistency(df_, threshold_) ==
    [ col \in Columns(df_) |-> ClassifyDetected(detect_series(df_.data[col], threshold_)) ]

\* the exception that leaves analyze_inconsistency, None if it returns
analyze_inconsistency_raises(df_, threshold_) ==
    LET raised == { detect_series_raises(df_.data[col], threshold_) :
                      col \in Columns(df_) } \ {None}
    IN  IF raised # {} THEN CHOOSE e \in raised : TRUE ELSE None

\* ------------------------------------------------ _calculate_column_formats

\* the cap on the unique values counted for a url or email column
MaxUniquePatterns == 10

\* the signature of one value in _count_phone_formats
PhoneFormatSignature(phone_str) ==
    LET country == IF startswith(phone_str, <<"+">>) THEN "country_code"
                   ELSE IF startswith(phone_str, <<"0", "0">>) THEN "intl_prefix"
                   ELSE "domestic"
        parens == IF Contains(phone_str, "(") /\ Contains(phone_str, ")")
                  THEN "area_parens" ELSE "no_parens"
        separators == (IF Contains(phone_str, "-") THEN "_dash" ELSE "")
                      \o (IF Contains(phone_str, ".") THEN "_dot" ELSE "")
                      \o (IF Contains(phone_str, " ") THEN "_space" ELSE "")
        sep == IF separators # "" THEN "sep" \o separators ELSE "no_sep"
        ext == IF \/ ContainsStr(lower(phone_str), <<"e", "x", "t">>)
                  \/ Contains(lower(phone_str), "x")
                  \/ Contains(lower(phone_str), "#")
               THEN <<"has_ext">> ELSE <<>>
    IN  <<country, parens, sep>> \o ext

\* the signature of one value in _count_date_formats
DateFormatSignature(date_str) ==
    LET sep == IF Contains(date_str, "/") THEN "slash_sep"
               ELSE IF Contains(date_str, "-") THEN "dash_sep"
               ELSE IF Contains(date_str, ".") THEN "dot_sep"
               ELSE "no_sep"
        time == IF Contains(date_str, ":") THEN "has_time" ELSE "date_only"
        tz == IF \/ endswith(date_str, <<"Z">>)
                 \/ Contains(LastSix(date_str), "+")
                 \/ Count(date_str, "-") > 2
              THEN <<"has_tz">> ELSE <<>>
    IN  <<sep, time>> \o tz

\* max(1, len(format_patterns)) over the values that are not blank
count_phone_formats(phone_data) ==
    LET format_patterns ==
            { PhoneFormatSignature(strip(phone_data[i])) :
                i \in { k \in DOMAIN phone_data : strip(phone_data[k]) # <<>> } }
    IN  IF Cardinality(format_patterns) > 1 THEN Cardinality(format_patterns) ELSE 1

count_date_formats(date_data) ==
    LET format_patterns ==
            { DateFormatSignature(strip(date_data[i])) :
                i \in { k \in DOMAIN date_data : strip(date_data[k]) # <<>> } }
    IN  IF Cardinality(format_patterns) > 1 THEN Cardinality(format_patterns) ELSE 1

\* the choice of the format count once the column is classified
FormatsOfClassified(clean_data, classified) ==
    LET detected_type == classified.type
        unique_patterns == Cardinality({ clean_data[i] : i \in DOMAIN clean_data })
    IN  IF detected_type = "phone"
        THEN [type |-> detected_type, format_count |-> count_phone_formats(clean_data)]
        ELSE IF detected_type = "date"
        THEN [type |-> detected_type, format_count |-> count_date_formats(clean_data)]
        ELSE IF detected_type \in {"url", "email"}
        THEN [type |-> detected_type,
              format_count |-> IF unique_patterns < MaxUniquePatterns
                               THEN unique_patterns ELSE MaxUniquePatterns]
        ELSE [type |-> detected_type, format_count |-> classified.format_count]

\* the method after clean_data is computed
FormatsOfClean(column_data, clean_data) ==
    IF clean_data = <<>> THEN [type |-> None, format_count |-> 1]
    ELSE FormatsOfClassified(
             clean_data,
             analyze_inconsistency(DataFrame(Len(column_data), [temp |-> column_data]),
                                   DefaultThreshold)["temp"])

\* returns (data type, format count) of one column
calculate_column_formats(column_data) == FormatsOfClean(column_data, Clean(column_data))

\* stats.crm_data_type, stats.crm_format_count = ...; the same for export
SetFormats(stats_, crm_formats, export_formats) ==
    [stats_ EXCEPT
        !.crm_data_type = crm_formats.type,
        !.crm_format_count = crm_formats.format_count,
        !.export_data_type = export_formats.type,
        !.export_format_count = export_formats.format_count]

\* --------------------------------------------------------- the stats model

ColumnComparisonStatsCalculation(mapping_id) ==
    [ column_mapping_id         |-> mapping_id,
      discarded_invalid_data    |-> 0,
      added_new_data            |-> 0,
      fixed_data                |-> 0,
      good_data                 |-> 0,
      not_found                 |-> 0,
      correct_values_before     |-> 0,
      correct_values_after      |-> 0,
      correct_percentage_before |-> Fraction(0, 1),
      correct_percentage_after  |-> Fraction(0, 1),
      crm_data_type             |-> None,
      crm_format_count          |-> 1,
      export_data_type          |-> None,
      export_format_count       |-> 1 ]

\* ------------------------------------ _calculate_column_comparison_stats

\* mutant: the source column is not looked up before it is read
MissingColumns_crm_unchecked(df_, crm_col, export_col) ==
    \/ export_col \in {None, ""}
    \/ export_col \notin Columns(df_)

\* not export_col or crm_col not in df.columns or export_col not in df.columns
MissingColumns(df_, crm_col, export_col) ==
    \/ export_col \in {None, ""}
    \/ crm_col \notin Columns(df_)
    \/ export_col \notin Columns(df_)

\* mutant: the two values are compared as they are, untrimmed
CompareRow_untrimmed(acc, idx, crm_val, export_val) ==
    LET crm_has_value == has_value(crm_val)
        export_has_value == has_value(export_val)
    IN  IF crm_has_value /\ ~export_has_value THEN
            [acc EXCEPT !.stats.discarded_invalid_data = @ + 1,
                        !.modified_records = @ \cup {idx}]
        ELSE IF ~crm_has_value /\ export_has_value THEN
            [acc EXCEPT !.stats.added_new_data = @ + 1,
                        !.modified_records = @ \cup {idx}]
        ELSE IF crm_has_value /\ export_has_value THEN
            IF crm_val.text = export_val.text THEN
                [acc EXCEPT !.stats.good_data = @ + 1,
                            !.unchanged_records = @ + 1]
            ELSE
                [acc EXCEPT !.stats.fixed_data = @ + 1,
                            !.modified_records = @ \cup {idx}]
        ELSE IF ~crm_has_value /\ ~export_has_value THEN
            [acc EXCEPT !.unchanged_records = @ + 1]
        ELSE acc

\* mutant: every row that is not both-empty is marked modified
CompareRow_marks_good(acc, idx, crm_val, export_val) ==
    LET crm_has_value == has_value(crm_val)
        export_has_value == has_value(export_val)
    IN  IF crm_has_value /\ ~export_has_value THEN
            [acc EXCEPT !.stats.discarded_invalid_data = @ + 1,
                        !.modified_records = @ \cup {idx}]
        ELSE IF ~crm_has_value /\ export_has_value THEN
            [acc EXCEPT !.stats.added_new_data = @ + 1,
                        !.modified_records = @ \cup {idx}]
        ELSE IF crm_has_value /\ export_has_value THEN
            IF strip(crm_val.text) = strip(export_val.text) THEN
                [acc EXCEPT !.stats.good_data = @ + 1,
                            !.unchanged_records = @ + 1,
                            !.modified_records = @ \cup {idx}]
            ELSE
                [acc EXCEPT !.stats.fixed_data = @ + 1,
                            !.modified_records = @ \cup {idx}]
        ELSE IF ~crm_has_value /\ ~export_has_value THEN
            [acc EXCEPT !.unchanged_records = @ + 1]
        ELSE acc

\* one iteration of "for idx in df.index"; acc is the stats being filled, the
\* local unchanged_records and the caller's modified_records
CompareRow(acc, idx, crm_val, export_val) ==
    LET crm_has_value == has_value(crm_val)
        export_has_value == has_value(export_val)
    IN  IF crm_has_value /\ ~export_has_value THEN
            [acc EXCEPT !.stats.discarded_invalid_data = @ + 1,
                        !.modified_records = @ \cup {idx}]
        ELSE IF ~crm_has_value /\ export_has_value THEN
            [acc EXCEPT !.stats.added_new_data = @ + 1,
                        !.modified_records = @ \cup {idx}]
        ELSE IF crm_has_value /\ export_has_value THEN
            IF strip(crm_val.text) = strip(export_val.text) THEN
                [acc EXCEPT !.stats.good_data = @ + 1,
                            !.unchanged_records = @ + 1]
            ELSE
                [acc EXCEPT !.stats.fixed_data = @ + 1,
                            !.modified_records = @ \cup {idx}]
        ELSE IF ~crm_has_value /\ ~export_has_value THEN
            [acc EXCEPT !.unchanged_records = @ + 1]
        ELSE acc

\* the loop over df.index = 0..rows-1; crm_data.iloc[idx] is crm_data[idx + 1]
RECURSIVE CompareLoop(_, _, _, _, _)
CompareLoop(crm_data, export_data, rows, idx, acc) ==
    IF idx >= rows THEN acc
    ELSE CompareLoop(crm_data, export_data, rows, idx + 1,
                     CompareRow(acc, idx, crm_data[idx + 1], export_data[idx + 1]))

\* export_data.notna().sum()
NotnaSum(column) == Cardinality({ i \in DOMAIN column : ~column[i].null })

\* mutant: the percentage is computed without the total_rows > 0 test
CorrectPercentage_unguarded(count, total_rows) == Fraction(count * 100, total_rows)

\* (count / total_rows) * 100 if total_rows > 0, else the default 0.0
CorrectPercentage(count, total_rows) ==
    IF total_rows > 0 THEN Fraction(count * 100, total_rows) ELSE Fraction(0, 1)

\* the method after the row loop; acc is what the loop left
AfterLoop(acc, crm_data, export_data, total_rows) ==
    LET before == acc.unchanged_records
        after == NotnaSum(export_data)
    IN  [exception |-> None,
         stats |-> SetFormats(
             [acc.stats EXCEPT
                 !.correct_values_before = before,
                 !.correct_values_after = after,
                 !.correct_percentage_before = CorrectPercentage(before, total_rows),
                 !.correct_percentage_after = CorrectPercentage(after, total_rows)],
             calculate_column_formats(crm_data),
             calculate_column_formats(export_data)),
         modified_records |-> acc.modified_records]

\* the method; returns the exception raised, the stats and the caller's set
calculate_column_comparison_stats(df_, column_mapping_, modified_records_) ==
    LET crm_col == column_mapping_.crm_column
        export_col == column_mapping_.export_column
        new == ColumnComparisonStatsCalculation(column_mapping_.id)
    IN  IF MissingColumns(df_, crm_col, export_col) THEN
            [exception |-> None, stats |-> new,
             modified_records |-> modified_records_]
        ELSE IF crm_col \notin Columns(df_) \/ export_col \notin Columns(df_) THEN
            \* df[crm_col] / df[export_col] on a column the table lacks
            [exception |-> "KeyError", stats |-> new,
             modified_records |-> modified_records_]
        ELSE
            LET crm_data == df_.data[crm_col]
                export_data == df_.data[export_col]
            IN  AfterLoop(CompareLoop(crm_data, export_data, df_.rows, 0,
                                      [stats |-> new, unchanged_records |-> 0,
                                       modified_records |-> modified_records_]),
                          crm_data, export_data, df_.rows)

\* ------------------------------------------------- calculate_statistics

\* ColumnMatcher's mapping (app/anthropic/column_matcher.py ColumnMapping)
ColumnMapping(crm, export, many_to_one, additional) ==
    [ crm_column |-> crm, export_column |-> export,
      is_many_to_one |-> many_to_one, additional_crm_columns |-> additional ]

\* the calculator's record of a mapping; id is the fresh uuid4 of the record
ColumnMappingCalculation(mapping_id, mapping) ==
    [ id |-> mapping_id,
      crm_column |-> mapping.crm_column,
      export_column |-> mapping.export_column,
      is_many_to_one |-> mapping.is_many_to_one,
      additional_crm_columns |-> mapping.additional_crm_columns,
      comparison_stats |-> <<>> ]

RECURSIVE TotalCrmColumnsInManyToOne(_)
TotalCrmColumnsInManyToOne(many_to_one_mappings) ==
    IF many_to_one_mappings = <<>> THEN 0
    ELSE LET mapping == Head(many_to_one_mappings)
             additional == mapping.additional_crm_columns
         IN  1 + (IF additional # <<>> THEN Len(additional[1]) ELSE 0)
               + TotalCrmColumnsInManyToOne(Tail(many_to_one_mappings))

IsManyToOne(m) == m.is_many_to_one

\* mutant: the additional columns of every mapping are counted, flagged or not
calculate_global_statistics_all_mappings(report_, matching) ==
    LET many_to_one_count == Len(SelectSeq(matching.mappings, IsManyToOne))
    IN  [report_ EXCEPT
            !.new_columns_count = Len(matching.unmapped_export_columns),
            !.many_to_one_count = many_to_one_count,
            !.columns_reduced_by_merging =
                TotalCrmColumnsInManyToOne(matching.mappings) - Len(matching.mappings)]

\* fills new_columns_count, many_to_one_count and columns_reduced_by_merging
calculate_global_statistics(report_, matching) ==
    LET many_to_one_mappings == SelectSeq(matching.mappings, IsManyToOne)
        many_to_one_count == Len(many_to_one_mappings)
    IN  [report_ EXCEPT
            !.new_columns_count = Len(matching.unmapped_export_columns),
            !.many_to_one_count = many_to_one_count,
            !.columns_reduced_by_merging =
                TotalCrmColumnsInManyToOne(many_to_one_mappings) - many_to_one_count]

\* comparison_stats.column_mapping_id = column_mapping.id;
\* all_comparison_stats.append(comparison_stats); r is what the call returned
RecordStats(appended, column_mapping_, r) ==
    [appended EXCEPT
        !.exception = r.exception,
        !.all_comparison_stats =
            Append(@, [r.stats EXCEPT !.column_mapping_id = column_mapping_.id]),
        !.modified_records = r.modified_records]

\* mutant: each mapping gets a set of its own and the sizes are added up
MappingStep_own_set(df_, mapping, i, acc) ==
    LET column_mapping_ == ColumnMappingCalculation(i, mapping)
        appended == [acc EXCEPT !.column_mappings = Append(@, column_mapping_)]
    IN  IF mapping.export_column \notin {None, ""} THEN
            LET r == calculate_column_comparison_stats(df_, column_mapping_, {})
                fresh == { <<i, idx>> : idx \in r.modified_records }
            IN  [appended EXCEPT
                    !.exception = r.exception,
                    !.all_comparison_stats =
                        Append(@, [r.stats EXCEPT !.column_mapping_id = column_mapping_.id]),
                    !.modified_records = @ \cup fresh]
        ELSE appended

\* one iteration of "for mapping in column_matching_result.mappings"
MappingStep(df_, mapping, i, acc) ==
    LET column_mapping_ == ColumnMappingCalculation(i, mapping)
        appended == [acc EXCEPT !.column_mappings = Append(@, column_mapping_)]
    IN  IF mapping.export_column \notin {None, ""} THEN
            RecordStats(appended, column_mapping_,
                        calculate_column_comparison_stats(
                            df_, column_mapping_, acc.modified_records))
        ELSE appended

\* the loop over the mappings; an exception ends it
RECURSIVE MappingLoop(_, _, _, _)
MappingLoop(df_, mappings, i, acc) ==
    IF i > Len(mappings) \/ acc.exception # None THEN acc
    ELSE MappingLoop(df_, mappings, i + 1, MappingStep(df_, mappings[i], i, acc))

\* for i, mapping in enumerate(column_mappings):
\*     if i < len(all_comparison_stats): mapping.comparison_stats = all_comparison_stats[i]
SetRelationships(column_mappings, all_comparison_stats) ==
    [ i \in 1..Len(column_mappings) |->
        IF i <= Len(all_comparison_stats)
        THEN [column_mappings[i] EXCEPT !.comparison_stats = <<all_comparison_stats[i]>>]
        ELSE column_mappings[i] ]

\* the method after the loop over the mappings; acc is what the loop left
AfterMappings(global, acc) ==
    [exception |-> acc.exception,
     report |-> [global EXCEPT
         !.records_modified_count = Cardinality(acc.modified_records),
         !.column_mappings =
             SetRelationships(acc.column_mappings, acc.all_comparison_stats)]]

\* the method; returns the exception raised and the report
calculate_statistics(df_, matching, crm_columns, export_columns) ==
    LET created ==
            [ total_rows |-> df_.rows,
              total_crm_columns |-> Len(crm_columns),
              total_export_columns |-> Len(export_columns),
              new_columns_count |-> 0,
              many_to_one_count |-> 0,
              columns_reduced_by_merging |-> 0,
              records_modified_count |-> 0,
              export_columns_created |-> Len(export_columns),
              column_mappings |-> <<>> ]
    IN  AfterMappings(calculate_global_statistics(created, matching),
                      MappingLoop(df_, matching.mappings, 1,
                                  [exception |-> None, column_mappings |-> <<>>,
                                   all_comparison_stats |-> <<>>,
                                   modified_records |-> {}]))

\* ------------------------------------------------------ analyze_population

\* mutant: every cell that is not null counts as filled
is_filled_notnull(val) == ~val.null

\* if pd.isnull(val): return False
\* if isinstance(val, str) and val.strip() == "": return False
\* return True
is_filled(val) ==
    IF val.null THEN FALSE
    ELSE IF strip(val.text) = <<>> THEN FALSE
    ELSE TRUE

\* col.apply(is_filled).sum()
FillCount(column) == Cardinality({ i \in DOMAIN column : is_filled(column[i]) })

ColumnPopulation(populated_count) == [populated_count |-> populated_count]

\* the function: one ColumnPopulation for every column of the table
analyze_population(df_) ==
    [ col \in Columns(df_) |-> ColumnPopulation(FillCount(df_.data[col])) ]

\* ------------------------------- process_initial_report: population warnings

\* population_rate = populated_count / total_records, and the severity of the
\* warning it leads to (None for a column populated to 75% or more)
PopulationWarning(populated_count, total_records) ==
    [ population_rate |-> Fraction(populated_count, total_records),
      severity |->
          IF populated_count = 0 THEN "HIGH"
          ELSE IF populated_count * 4 < total_records THEN "MEDIUM"
          ELSE IF populated_count * 4 < 3 * total_records THEN "LOW"
          ELSE None ]

\* the loop over population_results.items(): every column has a field, and
\* the division of the first column raises when the table has no rows
population_warnings(df_, population_results) ==
    IF Columns(df_) # {} /\ df_.rows = 0
    THEN [exception |-> ZeroDivisionError, warnings |-> <<>>]
    ELSE [exception |-> None,
          warnings |->
              [ col \in Columns(df_) |->
                  PopulationWarning(population_results[col].populated_count,
                                    df_.rows) ]]

\* ------------------------------------------------- print_enrichment_report

\* the last line printed: (records_modified_count / total_rows) * 100
data_modification_rate(enrichment_report) ==
    IF enrichment_report.total_rows = 0
    THEN [exception |-> ZeroDivisionError, rate |-> <<>>]
    ELSE [exception |-> None,
          rate |-> Fraction(enrichment_report.records_modified_count * 100,
                            enrichment_report.total_rows)]

\* --------------------------------------------------------------- main

\* ThreadPoolExecutor(max_workers=4)
max_workers == 4

\* the futures whose task a worker thread is running
Running(futures_) == { i \in DOMAIN futures_ : futures_[i].state = "running" }

\* the futures still in the executor's work queue
Pending(futures_) == { i \in DOMAIN futures_ : futures_[i].state = "pending" }

\* mutant: the executor starts a thread for every task
WorkerFree_unbounded(futures_) == TRUE

\* a worker thread is idle, or fewer than max_workers threads exist
WorkerFree(futures_) == Cardinality(Running(futures_)) < max_workers

\* the dict run_initial_report / run_enrichment_report returns
ResultRecord(task, status) ==
    [ folder |-> task.folder_name, type |-> task.type, status |-> status ]

\* ------------------------------------------------------------- the inputs

\* None, "", " ", "a", " a ", "b"
CompareCells ==
    {NULL, Str(<<>>), Str(<<" ">>), Str(<<"a">>), Str(<<" ", "a", " ">>),
     Str(<<"b">>)}

\* mappings of the direct call: both columns present, no destination, an
\* empty destination name, a destination or a source the table lacks
CompareMappings ==
    { ColumnMappingCalculation(1, ColumnMapping("crm_col", "export_col", FALSE, <<>>)),
      ColumnMappingCalculation(1, ColumnMapping("crm_col", None, FALSE, <<>>)),
      ColumnMappingCalculation(1, ColumnMapping("crm_col", "", FALSE, <<>>)),
      ColumnMappingCalculation(1, ColumnMapping("crm_col", "missing_export", FALSE, <<>>)),
      ColumnMappingCalculation(1, ColumnMapping("missing_crm", "export_col", FALSE, <<>>)) }

\* the caller's set before the direct call
ModifiedInputs == {{}, {0}}

\* the cells of a batch: crm_col holds None or "a", crm_col2 None or "b",
\* export_col None, "a" or "b"
BatchCrmCells == {NULL, Str(<<"a">>)}

BatchCrm2Cells == {NULL, Str(<<"b">>)}

BatchExportCells == {NULL, Str(<<"a">>), Str(<<"b">>)}

\* mappings a batch is made of
BatchMappings ==
    { ColumnMapping("crm_col", "export_col", TRUE, << <<"crm_col2">> >>),
      ColumnMapping("crm_col2", "export_col", FALSE, <<>>),
      ColumnMapping("crm_col", None, FALSE, <<>>),
      ColumnMapping("crm_col2", "missing_export", FALSE, <<>>) }

SeqsUpTo(S, n) == UNION { [1..k -> S] : k \in 0..n }

ColumnMatchingResponse(mappings, unmapped_export) ==
    [ mappings |-> mappings, unmapped_crm_columns |-> <<>>,
      unmapped_export_columns |-> unmapped_export ]

BatchMatchings ==
    { ColumnMatchingResponse(ms, u) :
        ms \in SeqsUpTo(BatchMappings, MaxMappings),
        u \in {<<>>, <<"new_export">>} }

NoMatching == ColumnMatchingResponse(<<>>, <<>>)

NoMapping == ColumnMappingCalculation(1, ColumnMapping("crm_col", None, FALSE, <<>>))

BatchCrmColumns == <<"crm_col", "crm_col2">>

BatchExportColumns == <<"export_col", "new_export">>

\* mappings for the global counts: flagged many-to-one with additional
\* columns, with additional_crm_columns None and with an empty list; not
\* flagged with additional columns, without a destination, and with a
\* destination the table lacks
GlobalMappings ==
    { ColumnMapping("crm_col", "export_col", TRUE, << <<"crm_col2">> >>),
      ColumnMapping("crm_col", "export_col", TRUE, <<>>),
      ColumnMapping("crm_col2", "export_col", TRUE, << <<>> >>),
      ColumnMapping("crm_col", "export_col", FALSE, << <<"crm_col2">> >>),
      ColumnMapping("crm_col", None, FALSE, <<>>),
      ColumnMapping("crm_col2", "new_export", FALSE, <<>>) }

\* what the matcher may report as unmapped export columns
GlobalUnmapped == { <<>>, <<"new_export">>, <<"export_col", "new_export">> }

\* the cells of the source column whose format is recorded
FormatCells ==
    { NULL, Str(EMAIL_A), Str(EMAIL_C), Str(PHONE_DASHES), Str(PHONE_PARENS),
      Str(DATE_ISO) }

\* the cells of the destination column
ExportFormatCells == { NULL, Str(EMAIL_A), Str(PHONE_DASHES), Str(PHONE_PARENS) }

\* the mapping of the two columns
FormatMapping ==
    ColumnMappingCalculation(1, ColumnMapping("crm_col", "export_col", FALSE, <<>>))

\* the cells of a classified column
ClassifyCells ==
    { NULL, Str(URL_HTTPS), Str(EMAIL_A), Str(PHONE_DASHES), Str(PHONE_PARENS),
      Str(SEVEN_DIGITS), Str(DATE_ISO), Str(DATE_US), Str(BOOL_TRUE), Str(ONE),
      Str(THOUSAND), Str(DECIMAL) }

\* the cells that follow the first SampleSize rows of a long column
LongTailCells == { Str(URL_HTTPS), Str(DATE_EU), Str(DATE_AMBIGUOUS) }

\* SampleSize rows of one date
LongHead == [ i \in 1..SampleSize |-> Str(DATE_EU) ]

\* 0.0, 1/3 and the default 0.8
Thresholds == { Fraction(0, 1), Fraction(1, 3), DefaultThreshold }

\* the cells of the column col of a table of several columns
ColCells == { NULL, Str(EMAIL_A), Str(PHONE_DASHES), Str(ONE) }

\* the cells of the column next to it
OtherCells == { NULL, Str(DATE_ISO), Str(ONE) }

\* the tables that hold the column x as col: x alone, or x next to a column
\* named other
TablesWith(x) ==
    { DataFrame(Len(x), [col |-> x]) }
        \cup { DataFrame(Len(x), [col |-> x, other |-> y]) :
                 y \in [1..Len(x) -> OtherCells] }

\* the cells of a column whose phone numbers the parser may reject
ParseCells == { NULL, Str(PHONE_DASHES), Str(PHONE_NO_COUNTRY), Str(ONE) }

\* the values _is_valid_phone_number is called with
ValidateNumbers == { PHONE_DASHES, SEVEN_DIGITS, PHONE_NO_COUNTRY, EMAIL_A }

\* what phonenumbers.parse raises on a value it rejects: the library's
\* NumberParseException, or another exception (as the parser of
\* test_is_valid_phone_number_with_library does)
ParseExceptions == { "NumberParseException", "Exception" }

\* the cells of a series given to _detect_date_format
DateCells == { NULL, Str(DATE_ISO), Str(DATE_US), Str(EMAIL_A) }

\* a batch whose report is printed: one mapping with a destination, or none
PrintedMatchings ==
    { ColumnMatchingResponse(ms, <<>>) :
        ms \in { <<>>, <<ColumnMapping("crm_col", "export_col", FALSE, <<>>)>> } }

\* the folders of the root folder
Folders == <<"a", "b", "c">>

\* the tasks main may queue, in the order of its loop over the folders: for
\* each folder its initial report, then its enrichment report
TaskList ==
    [ i \in 1..(2 * Len(Folders)) |->
        [ type |-> IF i % 2 = 1 THEN "initial" ELSE "enrichment",
          folder_name |-> Folders[(i + 1) \div 2] ] ]

\* the cells of the second column of a table whose population is counted
PopulationCells == {NULL, Str(<<" ">>), Str(<<"a">>)}

\* ------------------------------------------------------------ the machine

NotCalled ==
    /\ pc = "ready"
    /\ outcome = None
    /\ stats = <<>>
    /\ report = <<>>
    /\ result = <<>>

\* phonenumbers.parse is the library's: it raises NumberParseException
LibraryParser == parse_raises = "NumberParseException"

\* _is_valid_phone_number is not called directly
NoNumber == number = <<>>

\* main does not run
NoPool ==
    /\ tasks_to_process = <<>>
    /\ futures = <<>>
    /\ results = <<>>

\* a run that calls _calculate_column_comparison_stats directly
Init ==
    /\ NotCalled
    /\ op = "compare"
    /\ \E n \in 0..MaxRows :
         \E x \in [1..n -> CompareCells], y \in [1..n -> CompareCells] :
            df = DataFrame(n, [crm_col |-> x, export_col |-> y])
    /\ column_mapping \in CompareMappings
    /\ modified_records \in ModifiedInputs
    /\ column_matching_result = NoMatching
    /\ threshold = DefaultThreshold
    /\ phonenumbers = TRUE
    /\ pandas_guesses_format = TRUE
    /\ LibraryParser
    /\ NoNumber
    /\ NoPool

\* a run that calls calculate_statistics
InitBatch ==
    /\ NotCalled
    /\ op = "batch"
    /\ \E n \in 0..MaxRows :
         \E x \in [1..n -> BatchCrmCells], y \in [1..n -> BatchCrm2Cells],
            z \in [1..n -> BatchExportCells] :
            df = DataFrame(n, [crm_col |-> x, crm_col2 |-> y, export_col |-> z])
    /\ column_matching_result \in BatchMatchings
    /\ column_mapping = NoMapping
    /\ modified_records = {}
    /\ threshold = DefaultThreshold
    /\ phonenumbers = TRUE
    /\ pandas_guesses_format = TRUE
    /\ LibraryParser
    /\ NoNumber
    /\ NoPool

\* a run that calls calculate_statistics on a table without rows, for the
\* counts that depend on the matcher's response alone
InitGlobal ==
    /\ NotCalled
    /\ op = "batch"
    /\ df = DataFrame(0, [crm_col |-> <<>>, crm_col2 |-> <<>>, export_col |-> <<>>])
    /\ \E n \in 0..MaxMappings :
         \E ms \in [1..n -> GlobalMappings], u \in GlobalUnmapped :
            column_matching_result = ColumnMatchingResponse(ms, u)
    /\ column_mapping = NoMapping
    /\ modified_records = {}
    /\ threshold = DefaultThreshold
    /\ phonenumbers = TRUE
    /\ pandas_guesses_format = TRUE
    /\ LibraryParser
    /\ NoNumber
    /\ NoPool

\* a run that calls _calculate_column_comparison_stats on typed columns
InitFormats ==
    /\ NotCalled
    /\ op = "compare"
    /\ \E n \in 0..MaxRows :
         \E x \in [1..n -> FormatCells], y \in [1..n -> ExportFormatCells] :
            df = DataFrame(n, [crm_col |-> x, export_col |-> y])
    /\ column_mapping = FormatMapping
    /\ modified_records = {}
    /\ column_matching_result = NoMatching
    /\ threshold = DefaultThreshold
    /\ phonenumbers \in BOOLEAN
    /\ pandas_guesses_format \in BOOLEAN
    /\ LibraryParser
    /\ NoNumber
    /\ NoPool

\* a run that calls analyze_inconsistency on a table of one column
InitClassify ==
    /\ NotCalled
    /\ op = "classify"
    /\ \E n \in 0..MaxValues :
         \/ \E x \in [1..n -> ClassifyCells] : df = DataFrame(n, [col |-> x])
         \/ \E x \in [1..n -> LongTailCells] :
               df = DataFrame(SampleSize + n, [col |-> LongHead \o x])
    /\ threshold \in Thresholds
    /\ phonenumbers \in BOOLEAN
    /\ pandas_guesses_format \in BOOLEAN
    /\ LibraryParser
    /\ NoNumber
    /\ NoPool
    /\ column_mapping = NoMapping
    /\ column_matching_result = NoMatching
    /\ modified_records = {}

\* a run that calls analyze_population on a table of two columns
InitPopulation ==
    /\ NotCalled
    /\ op = "population"
    /\ \E n \in 0..MaxRows :
         \E x \in [1..n -> CompareCells], y \in [1..n -> PopulationCells] :
            df = DataFrame(n, [crm_col |-> x, export_col |-> y])
    /\ column_mapping = NoMapping
    /\ column_matching_result = NoMatching
    /\ modified_records = {}
    /\ threshold = DefaultThreshold
    /\ phonenumbers = TRUE
    /\ pandas_guesses_format = TRUE
    /\ LibraryParser
    /\ NoNumber
    /\ NoPool

\* a run that calls analyze_inconsistency on tables that share the column col
InitColumns ==
    /\ NotCalled
    /\ op = "classify"
    /\ \E n \in 0..MaxRows : \E x \in [1..n -> ColCells] : df \in TablesWith(x)
    /\ threshold \in Thresholds
    /\ phonenumbers \in BOOLEAN
    /\ pandas_guesses_format = TRUE
    /\ LibraryParser
    /\ NoNumber
    /\ NoPool
    /\ column_mapping = NoMapping
    /\ column_matching_result = NoMatching
    /\ modified_records = {}

\* a run that calls _is_valid_phone_number on a value, or analyze_inconsistency
\* on a column, with a parser that raises on the values it rejects
InitParse ==
    /\ NotCalled
    /\ \/ /\ op = "validate"
          /\ number \in ValidateNumbers
          /\ df = DataFrame(0, [col |-> <<>>])
       \/ /\ op = "classify"
          /\ NoNumber
          /\ \E n \in 0..MaxValues : \E x \in [1..n -> ParseCells] :
                df = DataFrame(n, [col |-> x])
    /\ threshold \in Thresholds
    /\ phonenumbers \in BOOLEAN
    /\ parse_raises \in ParseExceptions
    /\ pandas_guesses_format = TRUE
    /\ NoPool
    /\ column_mapping = NoMapping
    /\ column_matching_result = NoMatching
    /\ modified_records = {}

\* a run that calls _detect_date_format on the series df["col"]
InitDates ==
    /\ NotCalled
    /\ op = "detect_date"
    /\ \E n \in 0..MaxValues : \E x \in [1..n -> DateCells] :
          df = DataFrame(n, [col |-> x])
    /\ threshold = DefaultThreshold
    /\ phonenumbers = TRUE
    /\ pandas_guesses_format \in BOOLEAN
    /\ LibraryParser
    /\ NoNumber
    /\ NoPool
    /\ column_mapping = NoMapping
    /\ column_matching_result = NoMatching
    /\ modified_records = {}

\* _detect_date_format ends: the value is returned, or the division raised
ReturnDateFormat(value) ==
    IF value = ZeroDivisionError
    THEN outcome' = ZeroDivisionError /\ result' = <<>>
    ELSE outcome' = None /\ result' = <<value>>

\* a run of process_initial_report up to its population warnings, or a run
\* of process_enrichment_report from calculate_statistics to the printed report
InitRates ==
    /\ NotCalled
    /\ \/ /\ op = "initial"
          /\ \E n \in 0..MaxRows :
               \E x \in [1..n -> CompareCells], y \in [1..n -> PopulationCells] :
                  df = DataFrame(n, [crm_col |-> x, export_col |-> y])
          /\ column_matching_result = NoMatching
       \/ /\ op = "batch"
          /\ \E n \in 0..MaxRows :
               \E x \in [1..n -> BatchCrmCells], z \in [1..n -> BatchExportCells] :
                  df = DataFrame(n, [crm_col |-> x, crm_col2 |-> [i \in 1..n |-> NULL],
                                     export_col |-> z])
          /\ column_matching_result \in PrintedMatchings
    /\ column_mapping = NoMapping
    /\ modified_records = {}
    /\ threshold = DefaultThreshold
    /\ phonenumbers = TRUE
    /\ pandas_guesses_format = TRUE
    /\ LibraryParser
    /\ NoNumber
    /\ NoPool

\* a run of main from "Step 4": tasks_to_process holds the tasks queued
InitPool ==
    /\ NotCalled
    /\ op = "main"
    /\ \E n \in 0..MaxTasks : tasks_to_process = SubSeq(TaskList, 1, n)
    /\ futures = <<>>
    /\ results = <<>>
    /\ df = DataFrame(0, [col |-> <<>>])
    /\ column_mapping = NoMapping
    /\ column_matching_result = NoMatching
    /\ modified_records = {}
    /\ threshold = DefaultThreshold
    /\ phonenumbers = TRUE
    /\ pandas_guesses_format = TRUE
    /\ LibraryParser
    /\ NoNumber

\* a call of the classifier ends: the value is returned or the exception raised
ReturnOrRaise(exception, value) ==
    /\ outcome' = exception
    /\ result' = IF exception = None THEN <<value>> ELSE <<>>

\* the direct call ends: the stats are returned or the exception is raised
ReturnStats(r) ==
    /\ outcome' = r.exception
    /\ stats' = IF r.exception = None THEN <<r.stats>> ELSE <<>>
    /\ modified_records' = r.modified_records

\* calculate_statistics ends: the report is returned or the exception raised
ReturnReport(r) ==
    /\ outcome' = r.exception
    /\ report' = IF r.exception = None THEN <<r.report>> ELSE <<>>

\* test code or a caller runs
\* calculator._calculate_column_comparison_stats(df, column_mapping, modified_records)
CallColumnComparisonStats ==
    /\ pc = "ready"
    /\ op = "compare"
    /\ ReturnStats(calculate_column_comparison_stats(df, column_mapping, modified_records))
    /\ pc' = "returned"
    /\ UNCHANGED <<op, df, column_mapping, column_matching_result, report,
                   threshold, phonenumbers, pandas_guesses_format, result,
                   parse_raises, number, tasks_to_process, futures, results>>

\* calculator.calculate_statistics(df, column_matching_result, crm_columns, export_columns)
CallCalculateStatistics ==
    /\ pc = "ready"
    /\ op = "batch"
    /\ ReturnReport(calculate_statistics(df, column_matching_result,
                                         BatchCrmColumns, BatchExportColumns))
    /\ pc' = "returned"
    /\ UNCHANGED <<op, df, column_mapping, column_matching_result,
                   modified_records, stats,
                   threshold, phonenumbers, pandas_guesses_format, result,
                   parse_raises, number, tasks_to_process, futures, results>>

\* analyze_inconsistency(df, threshold=threshold)
CallAnalyzeInconsistency ==
    /\ pc = "ready"
    /\ op = "classify"
    /\ ReturnOrRaise(analyze_inconsistency_raises(df, threshold),
                     analyze_inconsistency(df, threshold))
    /\ pc' = "returned"
    /\ UNCHANGED <<op, df, column_mapping, column_matching_result,
                   modified_records, stats, report,
                   threshold, phonenumbers, pandas_guesses_format,
                   parse_raises, number, tasks_to_process, futures, results>>

\* analyze_population(df)
CallAnalyzePopulation ==
    /\ pc = "ready"
    /\ op = "population"
    /\ result' = <<analyze_population(df)>>
    /\ pc' = "returned"
    /\ UNCHANGED <<op, df, column_mapping, column_matching_result,
                   modified_records, outcome, stats, report,
                   threshold, phonenumbers, pandas_guesses_format,
                   parse_raises, number, tasks_to_process, futures, results>>

\* _is_valid_phone_number(number)
CallIsValidPhoneNumber ==
    /\ pc = "ready"
    /\ op = "validate"
    /\ ReturnOrRaise(is_valid_phone_number_raises(number),
                     is_valid_phone_number(number))
    /\ pc' = "returned"
    /\ UNCHANGED <<op, df, column_mapping, column_matching_result,
                   modified_records, stats, report,
                   threshold, phonenumbers, pandas_guesses_format,
                   parse_raises, number, tasks_to_process, futures, results>>

\* _detect_date_format(df["col"])
CallDetectDateFormat ==
    /\ pc = "ready"
    /\ op = "detect_date"
    /\ ReturnDateFormat(detect_date_format(SeriesValues(df.data["col"])))
    /\ pc' = "returned"
    /\ UNCHANGED <<op, df, column_mapping, column_matching_result,
                   modified_records, stats, report,
                   threshold, phonenumbers, pandas_guesses_format,
                   parse_raises, number, tasks_to_process, futures, results>>

\* process_initial_report: analyze_population(hubspot_df), then the loop that
\* creates the population warnings
CallPopulationWarnings ==
    /\ pc = "ready"
    /\ op = "initial"
    /\ LET r == population_warnings(df, analyze_population(df))
       IN  ReturnOrRaise(r.exception, r.warnings)
    /\ pc' = "returned"
    /\ UNCHANGED <<op, df, column_mapping, column_matching_result,
                   modified_records, stats, report,
                   threshold, phonenumbers, pandas_guesses_format,
                   parse_raises, number, tasks_to_process, futures, results>>

\* process_enrichment_report: print_enrichment_report(enrichment_report)
CallPrintEnrichmentReport ==
    /\ pc = "returned"
    /\ op = "batch"
    /\ report # <<>>
    /\ LET r == data_modification_rate(report[1])
       IN  ReturnOrRaise(r.exception, r.rate)
    /\ pc' = "printed"
    /\ UNCHANGED <<op, df, column_mapping, column_matching_result,
                   modified_records, stats, report,
                   threshold, phonenumbers, pandas_guesses_format,
                   parse_raises, number, tasks_to_process, futures, results>>

\* what main's pool steps leave alone
PoolUnchanged ==
    UNCHANGED <<op, df, column_mapping, column_matching_result,
                modified_records, outcome, stats, report,
                threshold, phonenumbers, pandas_guesses_format, result,
                parse_raises, number, tasks_to_process>>

\* if not tasks_to_process: return
NoTasks ==
    /\ op = "main"
    /\ pc = "ready"
    /\ tasks_to_process = <<>>
    /\ pc' = "returned"
    /\ UNCHANGED <<futures, results>>
    /\ PoolUnchanged

\* future = executor.submit(run_..._report, task["folder_name"])
Submit ==
    /\ op = "main"
    /\ pc = "ready"
    /\ Len(futures) < Len(tasks_to_process)
    /\ futures' = Append(futures, [state |-> "pending", yielded |-> FALSE])
    /\ UNCHANGED <<pc, results>>
    /\ PoolUnchanged

\* a worker thread takes the oldest work item of the queue
Start ==
    /\ op = "main"
    /\ Pending(futures) # {}
    /\ WorkerFree(futures)
    /\ LET i == CHOOSE j \in Pending(futures) : \A k \in Pending(futures) : j <= k
       IN  futures' = [futures EXCEPT ![i].state = "running"]
    /\ UNCHANGED <<pc, results>>
    /\ PoolUnchanged

\* run_initial_report / run_enrichment_report returns the success dict
FinishSuccess ==
    /\ op = "main"
    /\ \E i \in Running(futures) :
          futures' = [futures EXCEPT ![i].state = "success"]
    /\ UNCHANGED <<pc, results>>
    /\ PoolUnchanged

\* an exception is raised inside the task: "except Exception" returns the
\* error dict
FinishError ==
    /\ op = "main"
    /\ \E i \in Running(futures) :
          futures' = [futures EXCEPT ![i].state = "error"]
    /\ UNCHANGED <<pc, results>>
    /\ PoolUnchanged

\* for future in as_completed(future_to_task): results.append(future.result())
Collect ==
    /\ op = "main"
    /\ pc = "ready"
    /\ Len(futures) = Len(tasks_to_process)
    /\ \E i \in DOMAIN futures :
          /\ futures[i].state \in {"success", "error"}
          /\ ~futures[i].yielded
          /\ futures' = [futures EXCEPT ![i].yielded = TRUE]
          /\ results' = Append(results,
                               ResultRecord(tasks_to_process[i], futures[i].state))
    /\ UNCHANGED pc
    /\ PoolUnchanged

\* as_completed is exhausted and the with block of the executor is left
PoolExit ==
    /\ op = "main"
    /\ pc = "ready"
    /\ tasks_to_process # <<>>
    /\ Len(futures) = Len(tasks_to_process)
    /\ \A i \in DOMAIN futures : futures[i].yielded
    /\ pc' = "returned"
    /\ UNCHANGED <<futures, results>>
    /\ PoolUnchanged

\* the caller has a result and calls again, with a table in which the other
\* columns were added, removed or altered (or with the same table)
AlterOtherColumns ==
    /\ pc = "returned"
    /\ op = "classify"
    /\ "col" \in Columns(df)
    /\ df' \in TablesWith(df.data["col"])
    /\ pc' = "ready"
    /\ UNCHANGED <<op, column_mapping, column_matching_result,
                   modified_records, outcome, stats, report,
                   threshold, phonenumbers, pandas_guesses_format, result,
                   parse_raises, number, tasks_to_process, futures, results>>

Next == CallColumnComparisonStats

Spec == Init /\ [][Next]_vars

NextBatch == CallCalculateStatistics

SpecBatch == InitBatch /\ [][NextBatch]_vars

SpecFormats == InitFormats /\ [][Next]_vars

SpecGlobal == InitGlobal /\ [][NextBatch]_vars

NextColumns == CallAnalyzeInconsistency \/ AlterOtherColumns

SpecColumns == InitColumns /\ [][NextColumns]_vars

NextParse == CallIsValidPhoneNumber \/ CallAnalyzeInconsistency

SpecParse == InitParse /\ [][NextParse]_vars

NextDates == CallDetectDateFormat

SpecDates == InitDates /\ [][NextDates]_vars

NextRates ==
    \/ CallPopulationWarnings
    \/ CallCalculateStatistics
    \/ CallPrintEnrichmentReport

SpecRates == InitRates /\ [][NextRates]_vars

NextPool ==
    \/ NoTasks
    \/ Submit
    \/ Start
    \/ FinishSuccess
    \/ FinishError
    \/ Collect
    \/ PoolExit

SpecPool == InitPool /\ [][NextPool]_vars

NextPopulation == CallAnalyzePopulation

SpecPopulation == InitPopulation /\ [][NextPopulation]_vars

NextClassify == CallAnalyzeInconsistency

SpecClassify == InitClassify /\ [][NextClassify]_vars

\* ===================================================================
\* Properties.  The vocabulary below restates the claims' notions without
\* using the operators of the model above.
\* ===================================================================

\* a cell has a value: it is not null and some character of it is not a blank
NonEmpty(cell) == ~cell.null /\ \E k \in 1..Len(cell.text) : cell.text[k] # " "

\* the text between its first and its last non-blank character
Trimmed(text) ==
    LET ks == { k \in 1..Len(text) : text[k] # " " }
    IN  IF ks = {} THEN <<>>
        ELSE SubSeq(text, CHOOSE k \in ks : \A j \in ks : k <= j,
                          CHOOSE k \in ks : \A j \in ks : k >= j)

\* the category of a row with source cell S and destination cell D
RowClass(S, D) ==
    IF NonEmpty(S) /\ ~NonEmpty(D) THEN "discarded"
    ELSE IF ~NonEmpty(S) /\ NonEmpty(D) THEN "added"
    ELSE IF ~NonEmpty(S) /\ ~NonEmpty(D) THEN "both_empty"
    ELSE IF Trimmed(S.text) = Trimmed(D.text) THEN "good"
    ELSE "fixed"

RowIds(df_) == 0..(df_.rows - 1)

\* the rows of df_ that fall in one of the categories under crm -> export
RowsOfClass(df_, crm, export, classes) ==
    { i \in RowIds(df_) :
        RowClass(df_.data[crm][i + 1], df_.data[export][i + 1]) \in classes }

BothColumnsPresent(df_, m) ==
    m.crm_column \in DOMAIN df_.data /\ m.export_column \in DOMAIN df_.data

\* the direct call has returned stats for a mapping with both columns present
Compared ==
    /\ op = "compare"
    /\ pc = "returned"
    /\ stats # <<>>
    /\ BothColumnsPresent(df, column_mapping)

CrmCol == column_mapping.crm_column

ExportCol == column_mapping.export_column

\* C1: with both columns present, discarded + added + good + fixed + not_found
\* (the both-empty bucket) equals the number of rows of the table.
C1_CountsSumToTotalRows ==
    Compared =>
        stats[1].discarded_invalid_data + stats[1].added_new_data
            + stats[1].good_data + stats[1].fixed_data + stats[1].not_found
        = df.rows

C4_CorrectBeforeIsGood ==
    Compared => stats[1].correct_values_before = stats[1].good_data

\* C5: correct_values_after equals good + fixed + added, the rows whose
\* destination is non-empty; a blank destination cell is not counted.
C5_CorrectAfterIsNonEmptyDestination ==
    Compared =>
        stats[1].correct_values_after
        = stats[1].good_data + stats[1].fixed_data + stats[1].added_new_data

InPercentRange(p) == p.den > 0 /\ 0 <= p.num /\ p.num <= 100 * p.den

\* C6: both correctness percentages lie in [0, 100]; for a table of zero rows
\* both are exactly 0 and nothing is divided by zero.
C6_PercentageBounds ==
    (op = "compare" /\ pc = "returned") =>
        /\ outcome = None
        /\ stats # <<>>
        /\ InPercentRange(stats[1].correct_percentage_before)
        /\ InPercentRange(stats[1].correct_percentage_after)
        /\ df.rows = 0 =>
              /\ stats[1].correct_percentage_before.num = 0
              /\ stats[1].correct_percentage_after.num = 0

\* C6 witness: stats were computed for an empty table with both columns.
C6_Witness == Compared /\ df.rows = 0

\* the mapping cannot be compared on this table
NotApplicable(df_, m) == m.export_column = None \/ ~BothColumnsPresent(df_, m)

IsZeroStats(s) ==
    /\ s.discarded_invalid_data = 0
    /\ s.added_new_data = 0
    /\ s.fixed_data = 0
    /\ s.good_data = 0
    /\ s.not_found = 0
    /\ s.correct_values_before = 0
    /\ s.correct_values_after = 0
    /\ s.correct_percentage_before.num = 0
    /\ s.correct_percentage_after.num = 0

DirectCall == op = "compare" /\ pc = "ready" /\ pc' = "returned"

\* C7: when the mapping has no destination column, or its source or its
\* destination column is absent from the table, the call raises nothing,
\* returns all-zero stats and leaves the caller's modified set as it was.
C7_MissingColumnsZeroStats ==
    [][ (DirectCall /\ NotApplicable(df, column_mapping)) =>
            /\ outcome' = None
            /\ stats' # <<>>
            /\ IsZeroStats(stats'[1])
            /\ modified_records' = modified_records ]_vars

\* C7 witness: the source column is absent from a two-row table whose
\* destination column holds values, and the caller's set was not empty.
C7_Witness ==
    /\ op = "compare"
    /\ pc = "returned"
    /\ column_mapping.crm_column \notin DOMAIN df.data
    /\ column_mapping.export_column \in DOMAIN df.data
    /\ df.rows = 2
    /\ \A i \in RowIds(df) : NonEmpty(df.data["export_col"][i + 1])
    /\ modified_records = {0}

\* C8: the call adds a row index to the caller's set exactly when the row is
\* discarded, added or fixed; good and both-empty rows are not added and no
\* index already in the set is removed.
C8_ModifiedSetEffect ==
    [][ (DirectCall /\ BothColumnsPresent(df, column_mapping)) =>
            modified_records'
            = modified_records
                \cup RowsOfClass(df, CrmCol, ExportCol,
                                 {"discarded", "added", "fixed"}) ]_vars

\* C8 witness: row 0 is good or both-empty and is in the set only because the
\* caller had put it there; row 1 is fixed and was added.
C8_Witness ==
    /\ Compared
    /\ df.rows = 2
    /\ 0 \in RowsOfClass(df, CrmCol, ExportCol, {"good", "both_empty"})
    /\ 1 \in RowsOfClass(df, CrmCol, ExportCol, {"fixed"})
    /\ modified_records = {0, 1}

\* ------------------------------------------------------- batch properties

BatchReturned == op = "batch" /\ pc = "returned" /\ report # <<>>

Mappings == column_matching_result.mappings

\* the rows a mapping modifies on its own: none if it cannot be compared
ModifiedUnder(df_, m) ==
    IF NotApplicable(df_, m) THEN {}
    ELSE RowsOfClass(df_, m.crm_column, m.export_column,
                     {"discarded", "added", "fixed"})

\* C9: records_modified_count is the size of the union of the per-mapping
\* modified-row sets: every row that some mapping of the batch discards, adds
\* or fixes is counted once, and the count never exceeds the number of rows.
C9_RecordsModifiedIsUnion ==
    BatchReturned =>
        /\ report[1].records_modified_count
             = Cardinality(UNION { ModifiedUnder(df, Mappings[i]) :
                                     i \in 1..Len(Mappings) })
        /\ report[1].records_modified_count <= df.rows

\* C9 witness: two mappings modify different sets of rows that overlap, so
\* the count is less than the sum of the two sizes.
C9_Witness ==
    /\ BatchReturned
    /\ Len(Mappings) = 2
    /\ LET m1 == ModifiedUnder(df, Mappings[1])
           m2 == ModifiedUnder(df, Mappings[2])
       IN  /\ m1 # m2
           /\ m1 \cap m2 # {}
           /\ report[1].records_modified_count = Cardinality(m1 \cup m2)
           /\ report[1].records_modified_count < Cardinality(m1) + Cardinality(m2)

\* C10: in the report every mapping whose destination column is None has
\* comparison_stats = None, whatever else the batch holds, in any order.
C10_NoDestinationNoStats ==
    BatchReturned =>
        \A i \in 1..Len(Mappings) :
            Mappings[i].export_column = None =>
                report[1].column_mappings[i].comparison_stats = <<>>

\* ===================================================================
\* The column classifier.  The notions of the claims: the values of a
\* column, the share of them a family matches, the families in their
\* priority order.
\* ===================================================================

Classified == op = "classify" /\ pc = "returned" /\ result # <<>>

\* the classified column of the run
Column == df.data["col"]

\* what analyze_inconsistency returned for it
Verdict == result[1]["col"]

\* the rows of a column that hold a value
ValueRows(column) == { i \in DOMAIN column : ~column[i].null }

\* the value of a row: its text without the blanks around it
ValueAt(column, i) == Trimmed(column[i].text)

\* part is at least the share t of whole
Clears(part, whole, t) ==
    Cardinality(whole) > 0 /\ Cardinality(part) * t.den >= t.num * Cardinality(whole)

\* t1 <= t2
ThresholdLeq(t1, t2) == t1.num * t2.den <= t2.num * t1.den

UrlRows(column) == { i \in ValueRows(column) : URL_RE_match(ValueAt(column, i)) }

EmailRows(column) ==
    { i \in ValueRows(column) : str_match_EMAIL_RE_pattern(ValueAt(column, i)) }

PlausiblePhoneRows(column) ==
    { i \in ValueRows(column) : PHONE_RE_match(ValueAt(column, i)) }

ValidPhoneRows(column) ==
    { i \in PlausiblePhoneRows(column) : is_valid_number(ValueAt(column, i)) }

\* the rows the explicit format fmt parses
FormatRows(column, fmt) ==
    { i \in ValueRows(column) : strptime(ValueAt(column, i), fmt) }

BooleanRows(column) ==
    { i \in ValueRows(column) : lower(ValueAt(column, i)) \in BOOLEAN_VALUES }

Numeral(column, i) == to_numeric(Without(Without(ValueAt(column, i), ","), "_"))

IntegerRows(column) == { i \in ValueRows(column) : Numeral(column, i) = "whole" }

FloatRows(column) == { i \in ValueRows(column) : Numeral(column, i) = "fraction" }

PhonePlausibilityClears(column, t) ==
    Clears(PlausiblePhoneRows(column), ValueRows(column), t)

PhoneValidityClears(column, t) ==
    Clears(ValidPhoneRows(column), PlausiblePhoneRows(column), t)

\* some explicit format parses at least the share t of the values
SomeFormatCovers(column, t) ==
    \E k \in DOMAIN DATE_FORMATS :
        Clears(FormatRows(column, DATE_FORMATS[k]), ValueRows(column), t)

\* the acceptance test of a family at threshold t
Accepts(family, column, t) ==
    IF family = "url" THEN Clears(UrlRows(column), ValueRows(column), t)
    ELSE IF family = "email" THEN Clears(EmailRows(column), ValueRows(column), t)
    ELSE IF family = "phone"
    THEN PhonePlausibilityClears(column, t) /\ PhoneValidityClears(column, t)
    ELSE IF family = "date" THEN SomeFormatCovers(column, t)
    ELSE IF family = "boolean" THEN Clears(BooleanRows(column), ValueRows(column), t)
    ELSE IF family = "integer" THEN Clears(IntegerRows(column), ValueRows(column), t)
    ELSE IF family = "float" THEN Clears(FloatRows(column), ValueRows(column), t)
    ELSE FALSE

PriorityOrder ==
    <<"url", "email", "phone", "date", "boolean", "integer", "float", "string">>

\* the place of a type in the priority order
Rank(type) == CHOOSE k \in DOMAIN PriorityOrder : PriorityOrder[k] = type

\* the first of the families that accepts, string when none does
FirstAccepting(families, column, t) ==
    IF \E k \in DOMAIN families : Accepts(families[k], column, t)
    THEN families[CHOOSE k \in DOMAIN families :
             /\ Accepts(families[k], column, t)
             /\ \A j \in 1..(k - 1) : ~Accepts(families[j], column, t)]
    ELSE "string"

\* C11: a column with a value gets the first family of url, email, phone,
\* date, boolean, integer, float whose acceptance test passes at the
\* threshold, string when none passes; a column without a value is string
\* with format_count 1.
C11_FirstAcceptingFamily ==
    Classified =>
        IF ValueRows(Column) = {}
        THEN Verdict = [type |-> "string", format_count |-> 1]
        ELSE Verdict.type = FirstAccepting(PriorityOrder, Column, threshold)

\* C12: for t1 <= t2 the type detected at t2 is the type detected at t1 or a
\* later one in the priority order.
C12_ThresholdMonotone ==
    Classified =>
        \A t2 \in Thresholds :
            ThresholdLeq(threshold, t2) =>
                Rank(Verdict.type) <= Rank(analyze_inconsistency(df, t2)["col"].type)

\* a higher threshold moves the column to a later family
C12_Witness ==
    /\ Classified
    /\ \E t2 \in Thresholds :
          /\ ThresholdLeq(threshold, t2)
          /\ threshold.num > 0
          /\ Rank(Verdict.type) < Rank(analyze_inconsistency(df, t2)["col"].type)

\* C13: a column is phone only if the plausible values are at least the
\* threshold share of its values and the valid ones at least the threshold
\* share of the plausible ones.
C13_PhoneNeedsBothRatios ==
    Classified /\ Verdict.type = "phone" =>
        /\ PhonePlausibilityClears(Column, threshold)
        /\ PhoneValidityClears(Column, threshold)

\* C14: when plausibility clears the threshold and validity does not (and
\* url and email did not accept), the type is date or the first of boolean,
\* integer, float that accepts, string if none of them does; never phone.
C14_FailedValidityFallsThrough ==
    Classified
    /\ PhonePlausibilityClears(Column, threshold)
    /\ ~PhoneValidityClears(Column, threshold)
    /\ Verdict.type \notin {"url", "email"} =>
        /\ Verdict.type # "phone"
        /\ \/ Verdict.type = "date"
           \/ Verdict.type =
                  FirstAccepting(<<"boolean", "integer", "float">>, Column, threshold)

\* C15: a column that reaches the date step is date exactly when some format
\* of DATE_FORMATS parses at least the threshold share of its values.
C15_DateIffFormatCovers ==
    Classified
    /\ ValueRows(Column) # {}
    /\ Verdict.type \notin {"url", "email", "phone"} =>
        (Verdict.type = "date" <=> SomeFormatCovers(Column, threshold))

\* the rows that match the family the column was given
MatchingRows(column, type) ==
    IF type = "url" THEN UrlRows(column)
    ELSE IF type = "phone" THEN ValidPhoneRows(column)
    ELSE IF type = "date"
    THEN { i \in ValueRows(column) : dateutil_parse(ValueAt(column, i)) }
    ELSE IF type = "boolean" THEN BooleanRows(column)
    ELSE IF type = "integer" THEN IntegerRows(column)
    ELSE IF type = "float" THEN FloatRows(column)
    ELSE {}

\* the number of distinct format signatures of the rows
SignatureCount(column, type, rows) ==
    IF type = "url"
    THEN Cardinality({ get_url_format(ValueAt(column, i)) : i \in rows })
    ELSE IF type = "phone"
    THEN Cardinality({ get_phone_format(ValueAt(column, i)) : i \in rows })
    ELSE IF type = "date"
    THEN Cardinality({ detect_date_format(<<ValueAt(column, i)>>) : i \in rows })
    ELSE IF type = "boolean"
    THEN Cardinality({ get_boolean_format(ValueAt(column, i)) : i \in rows })
    ELSE IF type = "integer"
    THEN Cardinality({ get_integer_format(ValueAt(column, i)) : i \in rows })
    ELSE Cardinality({ get_float_format(ValueAt(column, i)) : i \in rows })

\* C16: for a url, phone, date, boolean, integer or float column
\* format_count is the number of distinct format signatures over all the
\* values that matched the family.
C16_FormatCountOverAllMatches ==
    Classified
    /\ Verdict.type \in {"url", "phone", "date", "boolean", "integer", "float"} =>
        Verdict.format_count =
            SignatureCount(Column, Verdict.type, MatchingRows(Column, Verdict.type))

\* C17: format_count >= 1 for every column and every threshold.
C17_FormatCountAtLeastOne == Classified => Verdict.format_count >= 1

\* C18: an email or string column has format_count 1.
C18_EmailAndStringCountOne ==
    Classified /\ Verdict.type \in {"email", "string"} => Verdict.format_count = 1

\* an email column and a string column whose values differ in shape
C18_Witness ==
    /\ Classified
    /\ Verdict.type \in {"email", "string"}
    /\ Verdict.format_count = 1
    /\ threshold.num > 0
    /\ \E i, j \in ValueRows(Column) :
          /\ ValueAt(Column, i) # ValueAt(Column, j)
          /\ ~str_match_EMAIL_RE_pattern(ValueAt(Column, j))

\* ===================================================================
\* The types and format counts recorded in the comparison stats.
\* ===================================================================

\* what analyze_inconsistency returns for one column on its own
ClassifiedAlone(column) ==
    analyze_inconsistency(DataFrame(Len(column), [col |-> column]),
                          DefaultThreshold)["col"]

\* C19: with both columns present, crm_data_type and crm_format_count are
\* the type and the format_count analyze_inconsistency returns for the
\* source column on its own.
C19_SourceFormatsAreClassifierOutput ==
    Compared =>
        /\ stats[1].crm_data_type = ClassifiedAlone(df.data[CrmCol]).type
        /\ stats[1].crm_format_count = ClassifiedAlone(df.data[CrmCol]).format_count

\* at least the share t of the values is phone-shaped and valid
UniformlyValidPhone(column, t) == Clears(ValidPhoneRows(column), ValueRows(column), t)

\* C20: a destination column that is a uniformly valid phone column has
\* export_format_count 1, whatever phone layouts it holds.
C20_DestinationPhoneCountIsOne ==
    Compared /\ UniformlyValidPhone(df.data[ExportCol], DefaultThreshold) =>
        stats[1].export_format_count = 1

\* ===================================================================
\* The counts of the report that come from the matcher's response.
\* ===================================================================

\* the destination columns given to calculate_statistics that no mapping names
UnnamedDestinations ==
    { BatchExportColumns[k] : k \in DOMAIN BatchExportColumns }
        \ { Mappings[i].export_column : i \in DOMAIN Mappings }

\* C21: new_columns_count is the number of destination (export) columns given
\* to calculate_statistics that no mapping of the batch names as its
\* destination column.
C21_NewColumnsAreUnnamedDestinations ==
    BatchReturned => report[1].new_columns_count = Cardinality(UnnamedDestinations)

\* the mappings flagged many-to-one
Flagged == { i \in DOMAIN Mappings : Mappings[i].is_many_to_one }

\* the number of additional source columns of a mapping
AdditionalCount(m) ==
    IF m.additional_crm_columns = <<>> THEN 0 ELSE Len(m.additional_crm_columns[1])

RECURSIVE MergedColumns(_)
MergedColumns(S) ==
    IF S = {} THEN 0
    ELSE LET i == CHOOSE j \in S : TRUE
         IN  1 + AdditionalCount(Mappings[i]) + MergedColumns(S \ {i})

\* C22: columns_reduced_by_merging is the sum over the mappings flagged
\* many-to-one of (1 + number of additional source columns), minus the number
\* of flagged mappings; unflagged mappings contribute nothing and the result
\* is never negative.
C22_ColumnsReducedByMerging ==
    BatchReturned =>
        /\ report[1].columns_reduced_by_merging
             = MergedColumns(Flagged) - Cardinality(Flagged)
        /\ report[1].columns_reduced_by_merging >= 0

\* C22 witness: a flagged mapping with one additional column next to an
\* unflagged mapping that has an additional column too; one column is merged
\* away.
C22_Witness ==
    /\ BatchReturned
    /\ Len(Mappings) = 2
    /\ Mappings[1].is_many_to_one /\ AdditionalCount(Mappings[1]) = 1
    /\ ~Mappings[2].is_many_to_one /\ AdditionalCount(Mappings[2]) = 1
    /\ report[1].columns_reduced_by_merging = 1

\* ===================================================================
\* Column population.
\* ===================================================================

PopulationReturned == op = "population" /\ pc = "returned" /\ result # <<>>

\* the cells of a column that are neither null nor a blank string
PopulatedRows(column) == { i \in DOMAIN column : NonEmpty(column[i]) }

\* C23: analyze_population returns, for every column of the table,
\* populated_count = the number of cells that are neither null nor a string
\* that is blank after trimming; so 0 <= populated_count <= rows, and it is 0
\* for an all-null column.
C23_PopulatedCount ==
    PopulationReturned =>
        /\ DOMAIN result[1] = Columns(df)
        /\ \A col \in Columns(df) :
              /\ result[1][col].populated_count
                    = Cardinality(PopulatedRows(df.data[col]))
              /\ 0 <= result[1][col].populated_count
              /\ result[1][col].populated_count <= df.rows
              /\ (\A i \in DOMAIN df.data[col] : df.data[col][i].null)
                    => result[1][col].populated_count = 0

\* C23 witness: a column of a blank string and a value next to an all-null
\* column; the counts are 1 and 0 over two rows.
C23_Witness ==
    /\ PopulationReturned
    /\ df.rows = 2
    /\ df.data["crm_col"] = <<Str(<<" ">>), Str(<<"a">>)>>
    /\ df.data["export_col"] = <<NULL, NULL>>
    /\ result[1]["crm_col"].populated_count = 1
    /\ result[1]["export_col"].populated_count = 0

\* ===================================================================
\* The classifier on tables of several columns.
\* ===================================================================

\* a call of analyze_inconsistency returns
ClassifyReturns == op = "classify" /\ pc = "ready" /\ pc' = "returned"

\* C24: the classification of a column is a function of that column's values
\* and the threshold only: every call returns exactly one entry for every
\* column of the table, and a call on a table that still holds the column col
\* with the same values returns the same (type, format_count) for it as the
\* call before, whether the other columns were kept, added, removed or
\* altered in between.
C24_ColumnsClassifiedIndependently ==
    [][ ClassifyReturns =>
          /\ DOMAIN result'[1] = Columns(df)
          /\ result # <<>> => result'[1]["col"] = result[1]["col"] ]_vars

\* C24 witness: a call returned an entry for col alone, and the table now
\* holds a second column of another type; the next call is about to run.
C24_Witness ==
    /\ op = "classify" /\ pc = "ready"
    /\ result # <<>>
    /\ DOMAIN result[1] = {"col"}
    /\ result[1]["col"].type = "email"
    /\ Columns(df) = {"col", "other"}
    /\ df.data["other"] = <<Str(DATE_ISO)>>

\* ===================================================================
\* Values the parsers fail on.
\* ===================================================================

\* the phone parser fails on the value x
ParserFails(x) == parse_rejects(x)

\* C25: a failure to parse a single value, whatever exception the parser
\* raises for it, makes the value a non-match and never aborts the
\* classification: _is_valid_phone_number returns False for it, and
\* analyze_inconsistency returns a result with an entry for the column.
C25_ParseFailureIsNonMatch ==
    /\ (op = "validate" /\ pc = "returned" /\ ParserFails(number))
          => (outcome = None /\ result = <<FALSE>>)
    /\ (op = "classify" /\ pc = "returned")
          => (outcome = None /\ result # <<>> /\ DOMAIN result[1] = Columns(df))

\* ===================================================================
\* The four value-bearing categories, and the stats of each mapping.
\* ===================================================================

\* C26: for every mapping with both columns present, good_data + fixed_data +
\* added_new_data + discarded_invalid_data equals the number of rows of the
\* table: the four value-bearing categories alone account for every row.
C26_FourCategoriesCoverRows ==
    Compared =>
        stats[1].good_data + stats[1].fixed_data
            + stats[1].added_new_data + stats[1].discarded_invalid_data
        = df.rows

\* the mapping records of the returned report
ReportMappings == report[1].column_mappings

\* C27: in the returned report every mapping that has a destination column
\* carries comparison stats, and the stats a mapping carries are the ones
\* computed for it (their column_mapping_id is the mapping's id), for any mix
\* and order of mappings with and without a destination column.
C27_StatsBelongToTheirMapping ==
    BatchReturned =>
        \A i \in 1..Len(Mappings) :
            /\ Mappings[i].export_column \notin {None, ""}
                  => ReportMappings[i].comparison_stats # <<>>
            /\ ReportMappings[i].comparison_stats # <<>>
                  => ReportMappings[i].comparison_stats[1].column_mapping_id
                       = ReportMappings[i].id

\* ===================================================================
\* _detect_date_format on series without dates.
\* ===================================================================

\* no cell of the series is a date: each is null or a text that neither a
\* format of DATE_FORMATS nor the generic parser reads
WithoutDates(series) ==
    \A i \in DOMAIN series :
        \/ series[i].null
        \/ /\ ~dateutil_parse(series[i].text)
           /\ \A k \in DOMAIN DATE_FORMATS : ~strptime(series[i].text, DATE_FORMATS[k])

\* C28: _detect_date_format returns None, without raising, for a series that
\* has no values (empty) as well as for a series whose values are all null or
\* unparseable.
C28_NoDatesGivesNone ==
    (op = "detect_date" /\ pc = "returned" /\ WithoutDates(df.data["col"]))
        => (outcome = None /\ result = <<None>>)

\* ===================================================================
\* Rates over a table without rows.
\* ===================================================================

\* C30: an analysis run over a table with zero data rows computes its rates
\* as 0 instead of failing with a division by zero: the population rate of
\* every column in process_initial_report, and the data modification rate in
\* print_enrichment_report.
C30_ZeroRowsGiveZeroRates ==
    /\ (op = "initial" /\ pc = "returned" /\ df.rows = 0)
          => /\ outcome = None
             /\ result # <<>>
             /\ \A col \in Columns(df) : result[1][col].population_rate.num = 0
    /\ (op = "batch" /\ pc = "printed" /\ df.rows = 0)
          => /\ outcome = None
             /\ result # <<>>
             /\ result[1].num = 0

\* ===================================================================
\* main's worker pool.
\* ===================================================================

\* the result records collected for the k-th task
RecordsOf(k) ==
    { j \in DOMAIN results :
        /\ results[j].folder = tasks_to_process[k].folder_name
        /\ results[j].type = tasks_to_process[k].type }

\* the pool has finished
PoolFinished == op = "main" /\ pc = "returned"

\* C29: every task submitted to the pool has exactly one result record, of
\* status success or error, when the pool has finished (and never more than
\* one before); an exception raised inside a task gives that task, and no
\* other, the status error, and all other tasks still run to completion; at
\* most 4 tasks run at the same time.
C29_OneRecordPerTask ==
    op = "main" =>
        /\ Cardinality(Running(futures)) <= 4
        /\ \A k \in DOMAIN tasks_to_process : Cardinality(RecordsOf(k)) <= 1
        /\ \A j \in DOMAIN results : results[j].status \in {"success", "error"}
        /\ PoolFinished =>
              /\ Len(results) = Len(tasks_to_process)
              /\ \A k \in DOMAIN tasks_to_process :
                    /\ Cardinality(RecordsOf(k)) = 1
                    /\ futures[k].state \in {"success", "error"}
                    /\ \A j \in RecordsOf(k) : results[j].status = futures[k].state

\* C29 witness: the pool has finished five tasks, more than it has workers;
\* the second raised and the others did not, and the five records say so.
C29_Witness ==
    /\ PoolFinished
    /\ Len(tasks_to_process) = 5
    /\ Len(results) = 5
    /\ futures[2].state = "error"
    /\ \A k \in {1, 3, 4, 5} : futures[k].state = "success"
    /\ \A j \in DOMAIN results :
          results[j].status = "error"
              <=> (results[j].folder = "a" /\ results[j].type = "enrichment")

====
